---- MODULE Spec2Model ----
(***************************************************************************)
(* The STOMP producer and consumer of cpp_amq_docker: class                *)
(* SimpleStompClient (producer/main.cpp and the consumer's main.cpp) and   *)
(* the two main() programs that drive it, over a TCP peer (the broker)     *)
(* that answers, delivers frames, fragments reads and closes at will.      *)
(* Byte strings are sequences of one-character strings; LF is the line     *)
(* break byte and NUL the zero byte.                                       *)
(***************************************************************************)
EXTENDS Integers, Sequences, FiniteSets, TLC

(* ---------------------------------------------------------------- bounds *)
\* Public calls a free caller makes on one client object.
MaxCalls == 3
\* Frames the peer sends on one connection after the handshake.
MaxFrames == 2
\* Frames the paced broker sends to the consumer program at most: one more than
\* the program waits for.
MaxPaced == 11
\* Leading frames of the paced broker that may have an empty body.
EmptyUpTo == 1

(* ----------------------------------------------------- program constants *)
max_retries == 10
message_count == 10
expected_messages == 10
npos == -1
\* connect(): char buffer[1024], read with recv(.., sizeof(buffer), ..).
connect_buffer_size == 1024
\* receiveMessage(): char buffer[4096], read with recv(.., sizeof(buffer) - 1, ..).
receive_buffer_size == 4096

(* ------------------------------------------------------------ byte strings *)
LF == "LF"
NUL == "NUL"

Min(a, b) == IF a <= b THEN a ELSE b

\* std::string::find(pattern, pos): the first 0-based index >= pos where pat starts.
find(s, pat, pos) ==
  LET cands == {k \in pos..(Len(s) - Len(pat)) : SubSeq(s, k + 1, k + Len(pat)) = pat}
  IN  IF cands = {} THEN npos ELSE CHOOSE k \in cands : \A j \in cands : k <= j

\* std::string::substr(pos, n) and substr(pos).
substr(s, pos, n) == SubSeq(s, pos + 1, Min(pos + n, Len(s)))
substr_from(s, pos) == SubSeq(s, pos + 1, Len(s))

\* A const char* read as a C string: the bytes before the first zero byte.
\* This is what std::string's operator+=(const char*), operator+(.., const char*)
\* and std::string(const char*) take from a literal or a buffer.
CStr(lit) ==
  LET k == find(lit, <<NUL>>, 0)
  IN  IF k = npos THEN lit ELSE SubSeq(lit, 1, k)

\* std::to_string of a non-negative integer.
Digits == <<"0", "1", "2", "3", "4", "5", "6", "7", "8", "9">>
RECURSIVE to_string(_)
to_string(n) ==
  IF n < 10 THEN <<Digits[n + 1]>>
  ELSE to_string(n \div 10) \o <<Digits[(n % 10) + 1]>>

(* ------------------------------------------------------- string literals *)
str_CONNECT_LF == <<"C", "O", "N", "N", "E", "C", "T", LF>>
str_accept_version == <<"a", "c", "c", "e", "p", "t", "-", "v", "e", "r", "s", "i", "o", "n", ":", "1", ".", "0", ",", "1", ".", "1", ",", "1", ".", "2", LF>>
str_host == <<"h", "o", "s", "t", ":">>
str_heart_beat == <<"h", "e", "a", "r", "t", "-", "b", "e", "a", "t", ":", "0", ",", "0", LF>>
str_LF_NUL == <<LF, NUL>>
str_CONNECTED == <<"C", "O", "N", "N", "E", "C", "T", "E", "D">>
str_SEND_LF == <<"S", "E", "N", "D", LF>>
str_destination == <<"d", "e", "s", "t", "i", "n", "a", "t", "i", "o", "n", ":">>
str_content_type == <<"c", "o", "n", "t", "e", "n", "t", "-", "t", "y", "p", "e", ":", "t", "e", "x", "t", "/", "p", "l", "a", "i", "n", LF>>
str_content_length == <<"c", "o", "n", "t", "e", "n", "t", "-", "l", "e", "n", "g", "t", "h", ":">>
str_DISCONNECT_LF_LF_NUL == <<"D", "I", "S", "C", "O", "N", "N", "E", "C", "T", LF, LF, NUL>>
str_DISCONNECT_LF_LF == <<"D", "I", "S", "C", "O", "N", "N", "E", "C", "T", LF, LF>>
str_SUBSCRIBE_LF == <<"S", "U", "B", "S", "C", "R", "I", "B", "E", LF>>
str_id == <<"i", "d", ":">>
\* The subscription with acknowledgement by the client.
str_ack_client == <<"a", "c", "k", ":", "c", "l", "i", "e", "n", "t", LF>>
str_ack_auto == <<"a", "c", "k", ":", "a", "u", "t", "o", LF>>
str_MESSAGE == <<"M", "E", "S", "S", "A", "G", "E">>
str_LF_LF == <<LF, LF>>
str_Hello == <<"H", "e", "l", "l", "o", " ", "f", "r", "o", "m", " ", "C", "+", "+", " ", "P", "r", "o", "d", "u", "c", "e", "r", " ", "-", " ">>
str_MSG_ == <<"M", "S", "G", "_">>
str_INDEX == <<"_", "I", "N", "D", "E", "X", "_">>

\* main(): connection parameters.
broker_host == <<"a", "c", "t", "i", "v", "e", "m", "q">>
queue_destination == <<"/", "q", "u", "e", "u", "e", "/", "P", "r", "o", "j", "e", "c", "t", "Q", "u", "e", "u", "e">>
\* subscribe()'s default subscription_id.
sub_1 == <<"s", "u", "b", "-", "1">>

(* ----------------------------------------------------------------- frames *)
\* connect(): the CONNECT frame.  The producer ends it with the literal "\n\0",
\* the consumer with "\n" and then char(0).
connectFrame(a, h) ==
  IF a = "producer"
  THEN CStr(str_CONNECT_LF) \o CStr(str_accept_version)
         \o (CStr(str_host) \o h \o CStr(<<LF>>)) \o CStr(str_LF_NUL)
  ELSE CStr(str_CONNECT_LF) \o CStr(str_accept_version)
         \o (CStr(str_host) \o h \o CStr(<<LF>>)) \o CStr(str_heart_beat)
         \o CStr(<<LF>>) \o <<NUL>>

\* sendMessage(): the SEND frame; its last operand is the literal "\0".
sendFrame(destination, message) ==
  CStr(str_SEND_LF)
    \o (CStr(str_destination) \o destination \o CStr(<<LF>>))
    \o CStr(str_content_type)
    \o (CStr(str_content_length) \o to_string(Len(message)) \o CStr(<<LF>>))
    \o (CStr(<<LF>>) \o message \o CStr(<<NUL>>))

\* subscribe(): the SUBSCRIBE frame, ended by char(0).
subscribeFrame(destination, subscription_id) ==
  CStr(str_SUBSCRIBE_LF)
    \o (CStr(str_destination) \o destination \o CStr(<<LF>>))
    \o (CStr(str_id) \o subscription_id \o CStr(<<LF>>))
    \o CStr(str_ack_auto) \o CStr(<<LF>>) \o <<NUL>>

\* disconnect(): the DISCONNECT frame.  The producer builds it from the literal
\* "DISCONNECT\n\n\0", the consumer from "DISCONNECT\n\n" and then char(0).
disconnectFrame(a) ==
  IF a = "producer" THEN CStr(str_DISCONNECT_LF_LF_NUL)
  ELSE CStr(str_DISCONNECT_LF_LF) \o <<NUL>>

\* generateMessageId(index); the formatted local time is one sample value.
SampleTime == <<"2", "0", "2", "5", "1", "0", "0", "7", "_", "1", "4", "3", "0", "2", "2">>
generateMessageId(index) == str_MSG_ \o SampleTime \o str_INDEX \o to_string(index)
\* main(): full_message of the producer's send loop.
full_message(index) == CStr(str_Hello) \o generateMessageId(index)

\* The command line of a frame: the bytes before the first line break.
Command(frame) ==
  LET k == find(frame, <<LF>>, 0)
  IN  IF k = npos THEN frame ELSE SubSeq(frame, 1, k)

(* ------------------------------------------------------------ parsing *)
\* connect(): buffer[bytes_read] = '\0'; std::string response(buffer);
\* response.find("CONNECTED") != npos.
HandshakeOk(chunk) ==
  LET response == CStr(chunk \o <<NUL>>)
  IN  find(response, str_CONNECTED, 0) # npos

\* receiveMessage(): the value returned after a read of bytes_read > 0 bytes.
ParseMessage(chunk) ==
  LET response == CStr(chunk \o <<NUL>>)
  IN  IF find(response, str_MESSAGE, 0) # npos
      THEN LET sep == find(response, str_LF_LF, 0)
           IN  IF sep # npos
               THEN LET body_start == sep + 2
                        body_end == find(response, <<NUL>>, body_start)
                    IN  IF body_end # npos
                        THEN substr(response, body_start, body_end - body_start)
                        ELSE substr_from(response, body_start)
               ELSE <<>>
      ELSE <<>>

(* ------------------------------------------------------ what the peer sends *)
\* Answers of the peer to a CONNECT frame.
RespConnected == <<"C", "O", "N", "N", "E", "C", "T", "E", "D", LF, "v", "e", "r", "s", "i", "o", "n", ":", "1", ".", "2", LF, LF, NUL>>
RespError == <<"E", "R", "R", "O", "R", LF, LF, "b", "a", "d", NUL>>
RespErrorMention == <<"E", "R", "R", "O", "R", LF, "m", "e", "s", "s", "a", "g", "e", ":", "n", "o", "t", " ", "C", "O", "N", "N", "E", "C", "T", "E", "D", LF, LF, NUL>>
HandshakeResponses == {RespConnected, RespError, RespErrorMention}
\* How many bytes of the answer the one recv() of connect() gets: all of it, or
\* only the first segment when the answer arrives in two.
FirstSegment == 4
HandshakeReads(resp) == {Min(FirstSegment, Len(resp)), Len(resp)}

\* Frames the peer sends after the handshake.
FrameMsgA == <<"M", "E", "S", "S", "A", "G", "E", LF, LF, "h", "i", NUL>>
FrameMsgB == <<"M", "E", "S", "S", "A", "G", "E", LF, LF, "y", "o", NUL>>
FrameError == <<"E", "R", "R", "O", "R", LF, LF, "b", "a", "d", NUL>>
\* A MESSAGE frame with a body of one byte.
FrameMsgX == str_MESSAGE \o <<LF, LF, "x", NUL>>
\* A MESSAGE frame with an empty body.
FrameMsgEmpty == str_MESSAGE \o <<LF, LF, NUL>>
PeerFrames == {FrameMsgA, FrameMsgB, FrameError}

\* Payloads a free caller passes to sendMessage.
Payloads == {<<"h", "e", "l", "l", "o">>, <<>>, <<"a", NUL, "b">>, <<"a", LF, LF, "b">>}

\* The body of a complete frame: the bytes between the blank line and the
\* terminator that ends the frame.
Body(frame) == SubSeq(frame, find(frame, str_LF_LF, 0) + 3, Len(frame) - 1)

(* ------------------------------------------------------------------ state *)
VARIABLES
  app,            \* which program's SimpleStompClient: "producer" or "consumer"
  driver,         \* "main": the program's main(); "harness": a free caller of the class
  pc,             \* position of the caller
  retry,          \* main(): loop variable of the retry loop
  connection_successful,
  i,              \* producer main(): loop variable of the send loop
  messages_received,
  exitCode,       \* value returned by main(), -1 while it runs
  calls,          \* public calls the free caller has made
  connected,      \* SimpleStompClient::connected
  sockfd,         \* SimpleStompClient::sockfd: -1 or the socket the last socket() made
  socks,          \* the descriptor table: per descriptor, open, handshake done, subscribed
  rx,             \* bytes the peer has sent on socket sockfd that are not read yet
  peerClosed,     \* the peer has closed its end of socket sockfd
  hung,           \* the process is blocked for ever in recv()
  lastOp,         \* the last step: a public method's name, "main" or "peer"
  ret,            \* bool returned by the last connect/sendMessage/subscribe
  msg,            \* string returned by the last receiveMessage
  arg,            \* message argument of the last sendMessage
  zero_index,     \* index of the local buffer at which the last read of connect or
                  \* receiveMessage stored the terminating zero, -1 if none
  sys,            \* system calls the last public method made, in order
  attempts,       \* main(): calls of connect() made by the retry loop, counted
                  \* until the loop has ended with a connection
  sent,           \* producer main(): calls of sendMessage in the send loop that
                  \* returned true
  waits,          \* main(): seconds of each wait of the retry loop, in order, kept
                  \* as long as attempts is
  disc,           \* disconnect() has run since the last call of connect()
  cmdsWritten,    \* command lines of the frames accepted by send() so far
  peerFrames,     \* frames the peer sent on this connection after the handshake
  reads,          \* reads of receiveMessage that returned data (saturates at 2)
  idleCalls,      \* calls of receiveMessage since its last read that returned data
  delivered       \* non-empty strings receiveMessage returned on this connection

mainVars == <<app, driver, pc, retry, connection_successful, i, messages_received,
              exitCode, calls, attempts, sent, waits>>
connVars == <<peerFrames, reads, idleCalls, delivered>>
vars == <<app, driver, pc, retry, connection_successful, i, messages_received,
          exitCode, calls, attempts, sent, waits, connected, sockfd, socks, rx,
          peerClosed, hung, lastOp, ret, msg, arg, zero_index, sys, disc,
          cmdsWritten, peerFrames, reads, idleCalls, delivered>>

\* Descriptors socket() can return: the lowest that is not open, from 3 up (0, 1
\* and 2 are the standard streams).  A free caller can leave one open per call.
Fds == 3..(2 + MaxCalls)
FreeFd == [open |-> FALSE, hs |-> FALSE, sub |-> FALSE]

Init ==
  /\ app \in {"producer", "consumer"}
  /\ driver \in {"main", "harness"}
  /\ pc = (IF driver = "main" THEN "attempt" ELSE "harness")
  /\ retry = (IF driver = "main" THEN 1 ELSE 0)
  /\ connection_successful = FALSE
  /\ i = 0
  /\ messages_received = 0
  /\ exitCode = -1
  /\ calls = 0
  /\ connected = FALSE
  /\ sockfd = -1
  /\ socks = [fd \in Fds |-> FreeFd]
  /\ rx = <<>>
  /\ peerClosed = FALSE
  /\ hung = FALSE
  /\ lastOp = "main"
  /\ ret = FALSE
  /\ msg = <<>>
  /\ arg = <<>>
  /\ zero_index = -1
  /\ sys = <<>>
  /\ attempts = 0
  /\ sent = 0
  /\ waits = <<>>
  /\ disc = FALSE
  /\ cmdsWritten = {}
  /\ peerFrames = <<>>
  /\ reads = 0
  /\ idleCalls = 0
  /\ delivered = <<>>

(* ------------------------------------------------------------ system calls *)
\* One system call: its name, the descriptor, the bytes passed to it (and, in
\* connect(), the bytes recv() stored) and the sign of the value it returned:
\* -1 for a failure, 0, or 1 for a positive value.
Sgn(v) == IF v < 0 THEN -1 ELSE IF v = 0 THEN 0 ELSE 1
Sys(op, fd, data, v) == [op |-> op, fd |-> fd, data |-> data, res |-> Sgn(v)]

IsOpen(fd) == fd \in Fds /\ socks[fd].open

\* socket(): the lowest descriptor that is not open.
LowestFree == CHOOSE fd \in Fds : ~socks[fd].open /\ \A g \in Fds : g < fd => socks[g].open

\* close(fd): 0, or -1 (EBADF) on a descriptor that is not open.
CloseRes(fd) == IF IsOpen(fd) THEN 0 ELSE -1
Close(table, fd) == IF fd \in Fds THEN [table EXCEPT ![fd] = FreeFd] ELSE table

\* send(fd, data, len, 0): len, or -1.
SendResults(fd, data) == IF IsOpen(fd) THEN {Len(data), -1} ELSE {-1}

\* recv(fd, buffer, len, 0) of receiveMessage: the number of bytes read, 0 at end of
\* stream, -1 on error; no value while the peer is silent (the call blocks).
RecvResults(fd, len) ==
  IF ~IsOpen(fd) THEN {-1}
  ELSE IF rx # <<>> THEN 1..Min(Len(rx), len)
  ELSE IF peerClosed THEN {0, -1}
  ELSE {}

Written(set, frame, res) == IF res >= 0 THEN set \cup {Command(frame)} ELSE set

(* --------------------------------------------------- SimpleStompClient *)
\* The guard left out: the method goes on to the transport whatever the flag says.
Refuses_never(c) == FALSE
\* if (!connected) at the head of sendMessage, subscribe and receiveMessage.
Refuses(c) == ~c

\* The guard testing the descriptor alone.
MayDisconnect_fd_only(c, fd) == fd >= 0
\* if (connected && sockfd >= 0) of disconnect.
MayDisconnect(c, fd) == c /\ fd >= 0

\* How one call of connect() can go: the step that fails, the peer staying
\* silent for ever after the CONNECT frame, or bytes arriving.
ConnectOutcomes ==
  {"socket", "resolve", "tcp", "send", "recv_err", "recv_eof", "hang", "data"}

\* The steps connect() reaches: 1 socket, 2 gethostbyname, 3 ::connect, 4 send, 5 recv.
Stage(o) ==
  CASE o = "socket" -> 1
    [] o = "resolve" -> 2
    [] o = "tcp" -> 3
    [] o = "send" -> 4
    [] OTHER -> 5

\* The name resolved before the socket is created.
ConnectTrace_resolve_first(o, fd, frame, chunk, closes) ==
  <<Sys("gethostbyname", fd, broker_host, IF o = "resolve" THEN -1 ELSE 0)>>
  \o (IF o # "resolve" THEN <<Sys("socket", fd, <<>>, fd)>> ELSE <<>>)
  \o (IF Stage(o) >= 3
      THEN <<Sys("connect", fd, <<>>, IF o = "tcp" THEN -1 ELSE 0)>>
      ELSE <<>>)
  \o (IF Stage(o) >= 4
      THEN <<Sys("send", fd, frame, IF o = "send" THEN -1 ELSE Len(frame))>>
      ELSE <<>>)
  \o (CASE o = "recv_err" -> <<Sys("recv", fd, <<>>, -1)>>
        [] o = "recv_eof" -> <<Sys("recv", fd, <<>>, 0)>>
        [] o = "data" -> <<Sys("recv", fd, chunk, Len(chunk))>>
        [] OTHER -> <<>>)
  \o (IF closes THEN <<Sys("close", fd, <<>>, 0)>> ELSE <<>>)

ConnectTrace(o, fd, frame, chunk, closes) ==
  <<Sys("socket", fd, <<>>, fd)>>
  \o (IF Stage(o) >= 2
      THEN <<Sys("gethostbyname", fd, broker_host, IF o = "resolve" THEN -1 ELSE 0)>>
      ELSE <<>>)
  \o (IF Stage(o) >= 3
      THEN <<Sys("connect", fd, <<>>, IF o = "tcp" THEN -1 ELSE 0)>>
      ELSE <<>>)
  \o (IF Stage(o) >= 4
      THEN <<Sys("send", fd, frame, IF o = "send" THEN -1 ELSE Len(frame))>>
      ELSE <<>>)
  \o (CASE o = "recv_err" -> <<Sys("recv", fd, <<>>, -1)>>
        [] o = "recv_eof" -> <<Sys("recv", fd, <<>>, 0)>>
        [] o = "data" -> <<Sys("recv", fd, chunk, Len(chunk))>>
        [] OTHER -> <<>>)
  \o (IF closes THEN <<Sys("close", fd, <<>>, 0)>> ELSE <<>>)

\* recv(sockfd, buffer, sizeof(buffer), 0) in connect(): the length passed.
connect_recv_length == connect_buffer_size
\* recv(sockfd, buffer, sizeof(buffer) - 1, 0) in receiveMessage(): the length passed.
receive_recv_length == receive_buffer_size - 1
\* buffer[bytes_read] = '\0'
terminator_index(bytes_read) == bytes_read

\* bool connect()
connect ==
  \E o \in ConnectOutcomes, resp \in HandshakeResponses :
  \E n \in {k \in HandshakeReads(resp) : k <= connect_recv_length} :
    /\ (o # "socket") => \E fd \in Fds : ~socks[fd].open
    /\ (o # "data") => (resp = RespConnected /\ n = Len(resp))
    /\ LET fd == IF o = "socket" THEN -1 ELSE LowestFree
           frame == connectFrame(app, broker_host)
           chunk == SubSeq(resp, 1, n)
           ok == o = "data" /\ HandshakeOk(chunk)
           closes == o \notin {"socket", "hang"} /\ ~ok
       IN  /\ sockfd' = fd
           /\ connected' = (connected \/ ok)
           /\ socks' = IF o = "socket" \/ closes THEN socks
                       ELSE [socks EXCEPT ![fd] = [open |-> TRUE, hs |-> ok, sub |-> FALSE]]
           /\ rx' = IF ok THEN SubSeq(resp, n + 1, Len(resp)) ELSE <<>>
           /\ hung' = (o = "hang")
           /\ ret' = ok
           /\ sys' = ConnectTrace(o, fd, frame, chunk, closes)
           /\ cmdsWritten' = IF Stage(o) = 5 THEN Written(cmdsWritten, frame, Len(frame))
                             ELSE cmdsWritten
    /\ lastOp' = "connect"
    /\ msg' = <<>>
    /\ arg' = <<>>
    /\ zero_index' = (IF o = "data" THEN terminator_index(n) ELSE -1)
    /\ disc' = FALSE
    /\ peerClosed' = FALSE
    /\ peerFrames' = <<>>
    /\ reads' = 0
    /\ idleCalls' = 0
    /\ delivered' = <<>>

\* The frame written again after the first write.
SendTrace_retransmit(fd, frame, r) ==
  <<Sys("send", fd, frame, r), Sys("send", fd, frame, r)>>
\* if (send(sockfd, frame.c_str(), frame.length(), 0) < 0)
SendTrace(fd, frame, r) == <<Sys("send", fd, frame, r)>>

\* bool sendMessage(destination, message)
sendMessage(destination, message) ==
  /\ lastOp' = "sendMessage"
  /\ msg' = <<>>
  /\ arg' = message
  /\ zero_index' = -1
  /\ IF Refuses(connected)
     THEN /\ ret' = FALSE
          /\ sys' = <<>>
          /\ UNCHANGED cmdsWritten
     ELSE LET frame == sendFrame(destination, message)
          IN  \E r \in SendResults(sockfd, frame) :
                /\ sys' = SendTrace(sockfd, frame, r)
                /\ ret' = (r >= 0)
                /\ cmdsWritten' = Written(cmdsWritten, frame, r)
  /\ UNCHANGED <<connected, sockfd, socks, rx, peerClosed, hung, disc, connVars>>

\* bool subscribe(destination, subscription_id)
subscribe(destination, subscription_id) ==
  /\ lastOp' = "subscribe"
  /\ msg' = <<>>
  /\ arg' = <<>>
  /\ zero_index' = -1
  /\ IF Refuses(connected)
     THEN /\ ret' = FALSE
          /\ sys' = <<>>
          /\ UNCHANGED <<cmdsWritten, socks>>
     ELSE LET frame == subscribeFrame(destination, subscription_id)
          IN  \E r \in SendResults(sockfd, frame) :
                /\ sys' = SendTrace(sockfd, frame, r)
                /\ ret' = (r >= 0)
                /\ cmdsWritten' = Written(cmdsWritten, frame, r)
                /\ socks' = IF r >= 0 THEN [socks EXCEPT ![sockfd].sub = TRUE] ELSE socks
  /\ UNCHANGED <<connected, sockfd, rx, peerClosed, hung, disc, connVars>>

\* std::string receiveMessage()
receiveMessage ==
  /\ lastOp' = "receiveMessage"
  /\ ret' = FALSE
  /\ arg' = <<>>
  /\ IF Refuses(connected)
     THEN /\ msg' = <<>>
          /\ sys' = <<>>
          /\ zero_index' = -1
          /\ UNCHANGED <<rx, reads, idleCalls, delivered>>
     ELSE \E bytes_read \in RecvResults(sockfd, receive_recv_length) :
            LET chunk == IF bytes_read > 0 THEN SubSeq(rx, 1, bytes_read) ELSE <<>>
            IN  /\ sys' = <<Sys("recv", sockfd, <<>>, bytes_read)>>
                /\ zero_index' = (IF bytes_read > 0 THEN terminator_index(bytes_read)
                                   ELSE -1)
                /\ msg' = IF bytes_read > 0 THEN ParseMessage(chunk) ELSE <<>>
                /\ rx' = IF bytes_read > 0 THEN SubSeq(rx, bytes_read + 1, Len(rx)) ELSE rx
                /\ reads' = IF bytes_read > 0 THEN Min(reads + 1, 2) ELSE reads
                /\ idleCalls' = IF bytes_read > 0 THEN 0 ELSE Min(idleCalls + 1, MaxFrames)
                /\ delivered' = IF msg' # <<>> THEN Append(delivered, msg') ELSE delivered
  /\ UNCHANGED <<connected, sockfd, socks, peerClosed, hung, disc, cmdsWritten,
                 peerFrames>>

\* The socket closed before the frame is written.
DisconnectTrace_close_first(fd, frame, r) ==
  <<Sys("close", fd, <<>>, CloseRes(fd)), Sys("send", fd, frame, -1)>>
\* send(sockfd, disconnectFrame...); close(sockfd);
DisconnectTrace(fd, frame, r) ==
  <<Sys("send", fd, frame, r), Sys("close", fd, <<>>, CloseRes(fd))>>

\* void disconnect()
disconnect ==
  /\ lastOp' = "disconnect"
  /\ ret' = FALSE
  /\ msg' = <<>>
  /\ arg' = <<>>
  /\ zero_index' = -1
  /\ disc' = TRUE
  /\ IF MayDisconnect(connected, sockfd)
     THEN LET frame == disconnectFrame(app)
          IN  \E r \in SendResults(sockfd, frame) :
                /\ sys' = DisconnectTrace(sockfd, frame, r)
                /\ cmdsWritten' = Written(cmdsWritten, frame, r)
                /\ socks' = Close(socks, sockfd)
                /\ connected' = FALSE
                /\ rx' = <<>>
     ELSE /\ sys' = <<>>
          /\ UNCHANGED <<cmdsWritten, socks, connected, rx>>
  /\ UNCHANGED <<sockfd, peerClosed, hung, connVars>>

(* ------------------------------------------------------------------ peer *)
\* The socket the client holds is connected to the peer and the handshake is done.
Established == IsOpen(sockfd) /\ socks[sockfd].hs

\* The peer sends one more frame; a MESSAGE only to a subscriber.
BrokerDeliver ==
  /\ ~hung /\ pc # "done"
  /\ Established /\ ~peerClosed
  /\ Len(peerFrames) < MaxFrames
  /\ \E f \in PeerFrames :
       /\ (Command(f) = str_MESSAGE) => socks[sockfd].sub
       /\ rx' = rx \o f
       /\ peerFrames' = Append(peerFrames, f)
  /\ lastOp' = "peer"
  /\ ret' = FALSE /\ msg' = <<>> /\ arg' = <<>> /\ zero_index' = -1 /\ sys' = <<>>
  /\ UNCHANGED <<mainVars, connected, sockfd, socks, peerClosed, hung, disc,
                 cmdsWritten, reads, idleCalls, delivered>>

\* The peer closes its end of the connection.
PeerClose ==
  /\ ~hung /\ pc # "done"
  /\ Established /\ ~peerClosed
  /\ peerClosed' = TRUE
  /\ lastOp' = "peer"
  /\ ret' = FALSE /\ msg' = <<>> /\ arg' = <<>> /\ zero_index' = -1 /\ sys' = <<>>
  /\ UNCHANGED <<mainVars, connected, sockfd, socks, rx, hung, disc, cmdsWritten,
                 connVars>>

\* The k-th frame of the paced broker: the producer's message may be empty
\* among the first EmptyUpTo.
PacedFrames(k) == IF k <= EmptyUpTo THEN {FrameMsgX, FrameMsgEmpty} ELSE {FrameMsgX}

\* A broker that forwards one producer's messages as they come, a second apart:
\* it sends the next MESSAGE frame to the subscriber once the bytes of the one
\* before have been read.
BrokerPaced ==
  /\ ~hung /\ pc # "done"
  /\ Established /\ ~peerClosed /\ socks[sockfd].sub
  /\ rx = <<>>
  /\ Len(peerFrames) < MaxPaced
  /\ \E f \in PacedFrames(Len(peerFrames) + 1) :
       /\ rx' = f
       /\ peerFrames' = Append(peerFrames, f)
  /\ lastOp' = "peer"
  /\ ret' = FALSE /\ msg' = <<>> /\ arg' = <<>> /\ zero_index' = -1 /\ sys' = <<>>
  /\ UNCHANGED <<mainVars, connected, sockfd, socks, peerClosed, hung, disc,
                 cmdsWritten, reads, idleCalls, delivered>>

(* ---------------------------------------------------------------- main() *)
\* The loop test off by one.
LoopCond_strict(r) == r < max_retries
\* for (int retry = 1; retry <= max_retries; ++retry)
LoopCond(r) == r <= max_retries

\* The test of the loop's outcome left out.
GivesUp_never(cs) == FALSE
\* if (!connection_successful) { ...; return 1; }
GivesUp(cs) == ~cs

\* The end of one iteration that did not break: ++retry, then the loop test.
NextIteration ==
  /\ retry' = retry + 1
  /\ pc' = IF LoopCond(retry + 1) THEN "attempt" ELSE "check"

\* A wait after the last attempt as well.
Sleeps_always(r) == TRUE
\* if (retry < max_retries) { ...sleep_for... }
Sleeps(r) == r < max_retries

\* The loop taken up again after a success.
AfterBreak_retry == "attempt"
\* break; leaves the retry loop
AfterBreak == "check"

\* One iteration of the retry loop, up to the wait.
MainAttempt ==
  /\ driver = "main" /\ pc = "attempt" /\ ~hung
  /\ connect
  /\ attempts' = attempts + 1
  /\ IF hung' THEN UNCHANGED <<pc, retry, connection_successful>>
     ELSE IF ret'
     THEN /\ connection_successful' = TRUE
          /\ pc' = AfterBreak
          /\ UNCHANGED retry
     ELSE /\ UNCHANGED connection_successful
          /\ IF Sleeps(retry)
             THEN pc' = "sleep" /\ UNCHANGED retry
             ELSE NextIteration
  /\ UNCHANGED <<app, driver, i, messages_received, exitCode, calls, sent, waits>>

\* A wait that grows with the retry index.
sleep_seconds_growing(r) == 3 * r
\* std::chrono::seconds(3)
sleep_seconds(r) == 3

\* std::this_thread::sleep_for(std::chrono::seconds(3)), then the next iteration.
MainSleep ==
  /\ driver = "main" /\ pc = "sleep"
  /\ waits' = Append(waits, sleep_seconds(retry))
  /\ NextIteration
  /\ lastOp' = "main"
  /\ UNCHANGED <<app, driver, connection_successful, i, messages_received, exitCode,
                 calls, attempts, sent, connected, sockfd, socks, rx, peerClosed, hung,
                 ret, msg, arg, zero_index, sys, disc, cmdsWritten, connVars>>

\* After the loop: give up with exit code 1, or go on to the messaging phase.
MainCheck ==
  /\ driver = "main" /\ pc = "check"
  /\ IF GivesUp(connection_successful)
     THEN exitCode' = 1 /\ pc' = "destruct" /\ UNCHANGED <<i, attempts, waits>>
     ELSE /\ UNCHANGED exitCode
          /\ attempts' = IF connection_successful THEN 0 ELSE attempts
          /\ waits' = IF connection_successful THEN <<>> ELSE waits
          /\ IF app = "producer" THEN pc' = "send" /\ i' = 1
             ELSE pc' = "subscribe" /\ UNCHANGED i
  /\ retry' = 0
  /\ lastOp' = "main"
  /\ UNCHANGED <<app, driver, connection_successful, messages_received, calls, sent,
                 connected, sockfd, socks, rx, peerClosed, hung, ret, msg, arg, zero_index, sys,
                 disc, cmdsWritten, connVars>>

\* Producer: one iteration of the send loop.
MainSend ==
  /\ driver = "main" /\ pc = "send"
  /\ sendMessage(queue_destination, full_message(i))
  /\ i' = i + 1
  /\ sent' = IF ret' THEN sent + 1 ELSE sent
  /\ pc' = IF i + 1 <= message_count THEN "send" ELSE "disconnect"
  /\ UNCHANGED <<app, driver, retry, connection_successful, messages_received,
                 exitCode, calls, attempts,
                 waits>>

\* Consumer: client.subscribe(queue_destination).
MainSubscribe ==
  /\ driver = "main" /\ pc = "subscribe"
  /\ subscribe(queue_destination, sub_1)
  /\ IF ret' THEN pc' = "recv" /\ UNCHANGED exitCode
     ELSE pc' = "destruct" /\ exitCode' = 1
  /\ UNCHANGED <<app, driver, retry, connection_successful, i, messages_received,
                 calls, attempts,
                 sent, waits>>

\* Every returned string counted.
Counts_always(message) == TRUE
\* if (!message.empty())
Counts(message) == message # <<>>

\* Consumer: one iteration of while (messages_received < expected_messages).
MainReceive ==
  /\ driver = "main" /\ pc = "recv"
  /\ messages_received < expected_messages
  /\ receiveMessage
  /\ IF Counts(msg')
     THEN /\ messages_received' = messages_received + 1
          /\ pc' = IF messages_received + 1 >= expected_messages THEN "disconnect"
                   ELSE "recv"
     ELSE UNCHANGED <<messages_received, pc>>
  /\ UNCHANGED <<app, driver, retry, connection_successful, i, exitCode, calls,
                 attempts,
                 sent, waits>>

\* client.disconnect(); return 0;
MainDisconnect ==
  /\ driver = "main" /\ pc = "disconnect"
  /\ disconnect
  /\ exitCode' = 0
  /\ pc' = "destruct"
  /\ UNCHANGED <<app, driver, retry, connection_successful, i, messages_received,
                 calls, attempts,
                 sent, waits>>

\* ~SimpleStompClient(), when main() returns or the free caller drops the object.
Destructor ==
  /\ pc \in {"destruct", "harness"} /\ ~hung
  /\ disconnect
  /\ pc' = "done"
  /\ UNCHANGED <<app, driver, retry, connection_successful, i, messages_received,
                 exitCode, calls, attempts,
                 sent, waits>>

(* ------------------------------------------------------------ free caller *)
Harness == driver = "harness" /\ pc = "harness" /\ ~hung /\ calls < MaxCalls
HarnessStep ==
  /\ calls' = calls + 1
  /\ UNCHANGED <<app, driver, pc, retry, connection_successful, i, messages_received,
                 exitCode, attempts,
                 sent, waits>>

CallConnect == Harness /\ connect /\ HarnessStep
CallSendMessage ==
  /\ Harness /\ app = "producer"
  /\ \E p \in Payloads : sendMessage(queue_destination, p)
  /\ HarnessStep
CallSubscribe ==
  /\ Harness /\ app = "consumer"
  /\ subscribe(queue_destination, sub_1)
  /\ HarnessStep
CallReceiveMessage ==
  /\ Harness /\ app = "consumer"
  /\ receiveMessage
  /\ HarnessStep
CallDisconnect == Harness /\ disconnect /\ HarnessStep

Next ==
  \/ MainAttempt
  \/ MainSleep
  \/ MainCheck
  \/ MainSend
  \/ MainSubscribe
  \/ MainReceive
  \/ MainDisconnect
  \/ Destructor
  \/ CallConnect
  \/ CallSendMessage
  \/ CallSubscribe
  \/ CallReceiveMessage
  \/ CallDisconnect
  \/ BrokerDeliver
  \/ PeerClose

Spec == Init /\ [][Next]_vars

\* The consumer program on its own, with a broker that forwards a producer's
\* messages one at a time.
InitConsumer == Init /\ app = "consumer" /\ driver = "main"
NextConsumer ==
  \/ MainAttempt
  \/ MainSleep
  \/ MainCheck
  \/ MainSubscribe
  \/ MainReceive
  \/ MainDisconnect
  \/ Destructor
  \/ BrokerPaced
  \/ PeerClose
SpecConsumer == InitConsumer /\ [][NextConsumer]_vars
\* The consumer program is sequential and runs whenever it can: each of its
\* steps that stays enabled is eventually taken.  Nothing is assumed of the
\* broker, which may stay silent or close at any time.
FairConsumer ==
  /\ WF_vars(MainAttempt)
  /\ WF_vars(MainSleep)
  /\ WF_vars(MainCheck)
  /\ WF_vars(MainSubscribe)
  /\ WF_vars(MainReceive)
  /\ WF_vars(MainDisconnect)
  /\ WF_vars(Destructor)
SpecConsumerFair == SpecConsumer /\ FairConsumer

(* ------------------------------------------------ the two receive buffers *)
\* The reads of connect() and receiveMessage() as functions of the byte count
\* recv returns: any count from 1 up to the length passed is possible (the peer
\* decides how much is available), and the zero is stored at buffer[bytes_read].
\* Only the index is followed; everything else the calls do is in connect and
\* receiveMessage above.  The buffer is a fresh local of each call, so one
\* read is followed per behaviour.
bufferVars == <<app, driver, pc, retry, connection_successful, i, messages_received,
                exitCode, calls, attempts, sent, waits, connected, sockfd, socks, rx,
                peerClosed, hung, ret, msg, arg, sys, disc, cmdsWritten, peerFrames,
                reads, idleCalls, delivered>>
\* connect(): int bytes_read = recv(sockfd, buffer, sizeof(buffer), 0);
\*            if (bytes_read > 0) { buffer[bytes_read] = '\0'; ...
connect_read ==
  /\ zero_index = -1
  /\ \E bytes_read \in 1..connect_recv_length :
       /\ lastOp' = "connect"
       /\ zero_index' = terminator_index(bytes_read)
       /\ UNCHANGED bufferVars
\* receiveMessage(): int bytes_read = recv(sockfd, buffer, sizeof(buffer) - 1, 0);
\*                   if (bytes_read > 0) { buffer[bytes_read] = '\0'; ...
receiveMessage_read ==
  /\ app = "consumer"
  /\ zero_index = -1
  /\ \E bytes_read \in 1..receive_recv_length :
       /\ lastOp' = "receiveMessage"
       /\ zero_index' = terminator_index(bytes_read)
       /\ UNCHANGED bufferVars
NextBuffers ==
  \/ connect_read
  \/ receiveMessage_read
SpecBuffers == Init /\ [][NextBuffers]_vars

(* ================================================================ claims *)
Last(f) == f[Len(f)]
IsMessage(f) == Command(f) = str_MESSAGE
Bodies(frames) == [k \in 1..Len(frames) |-> Body(frames[k])]
AllMessages(frames) == \A k \in 1..Len(frames) : IsMessage(frames[k])
\* The frames send() accepted during the last public call.
FramesWritten == {sys[k].data : k \in {j \in 1..Len(sys) : sys[j].op = "send" /\ sys[j].res > 0}}
\* In main(): every attempt of the retry loop has been made and has failed.
AllAttemptsFailed ==
  driver = "main" /\ attempts = max_retries /\ ~connection_successful /\ ~hung

\* C1 (retry bound): in main(), the retry loop never calls connect() more than
\* max_retries times; when it ends without a connection it has called connect()
\* exactly max_retries times, and the program then ends with exit code 1.
C1_RetryBound ==
  driver = "main" =>
    /\ attempts <= max_retries
    /\ (pc \in {"check", "destruct", "done"} /\ ~connection_successful)
         => attempts = max_retries
    /\ (pc \in {"destruct", "done"} /\ ~connection_successful) => exitCode = 1
C1_Witness ==
  driver = "main" /\ pc = "done" /\ ~connection_successful
    /\ attempts = max_retries /\ exitCode = 1

\* C2 (frame terminator): every frame written to the transport ends with the
\* zero byte, and a frame without a body ends with the blank line and then the
\* zero byte.
C2_FramesTerminated ==
  \A f \in FramesWritten :
    /\ Last(f) = NUL
    /\ (Command(f) # CStr(<<"S", "E", "N", "D">>))
         => SubSeq(f, Len(f) - 2, Len(f)) = <<LF, LF, NUL>>

\* C3 (ordering within a read): when one read on a live connection has taken
\* k >= 1 complete MESSAGE frames, which are all the peer sent, and k - 1 further
\* calls of receiveMessage have been made, the strings returned are the k bodies
\* in arrival order.
C3_OrderWithinRead ==
  (/\ Len(peerFrames) >= 1
   /\ AllMessages(peerFrames)
   /\ connected /\ Established
   /\ reads = 1
   /\ rx = <<>>
   /\ idleCalls >= Len(peerFrames) - 1)
  => delivered = Bodies(peerFrames)

\* C4 (fragmentation invariance): once the whole stream of complete MESSAGE frames
\* has been read on a live connection, in however many reads, and as many further
\* calls as there are frames have been made, the strings returned are the bodies
\* of the frames in order.
C4_FragmentationInvariance ==
  (/\ Len(peerFrames) >= 1
   /\ AllMessages(peerFrames)
   /\ connected /\ Established
   /\ reads >= 1
   /\ rx = <<>>
   /\ idleCalls >= Len(peerFrames))
  => delivered = Bodies(peerFrames)

\* C5 (no incomplete delivery): every string receiveMessage has returned is the
\* complete body of a MESSAGE frame the peer sent.
C5_OnlyCompleteBodies ==
  \A k \in 1..Len(delivered) :
    \E j \in 1..Len(peerFrames) :
      IsMessage(peerFrames[j]) /\ delivered[k] = Body(peerFrames[j])

\* C6 (handshake outcome): connect() returns true only when the bytes it read are
\* a CONNECTED frame; otherwise it returns false, the client is not connected and
\* the socket of the attempt is closed.
AnswerIsConnected ==
  \E k \in 1..Len(sys) :
    sys[k].op = "recv" /\ sys[k].res > 0 /\ Command(sys[k].data) = str_CONNECTED
C6_HandshakeOutcome ==
  (lastOp = "connect" /\ ~hung) =>
    IF AnswerIsConnected THEN TRUE
    ELSE ~ret /\ ~connected /\ ~IsOpen(sockfd)

\* C7 (not connected): sendMessage, subscribe and receiveMessage called while the
\* client is not connected make no system call, return false or the empty string
\* and change nothing of the client, the socket or the transport.
C7_NotConnectedNoIO ==
  [][(lastOp' \in {"sendMessage", "subscribe", "receiveMessage"} /\ ~connected)
       => (/\ sys' = <<>>
           /\ ret' = FALSE
           /\ msg' = <<>>
           /\ UNCHANGED <<connected, sockfd, socks, rx, cmdsWritten, connVars>>)]_vars
C7_Witness ==
  /\ lastOp \in {"sendMessage", "subscribe", "receiveMessage"}
  /\ ~connected /\ disc /\ sys = <<>>

\* C8 (idempotent disconnect): a call of disconnect() made after disconnect() has
\* run, with no call of connect() in between, makes no system call (no DISCONNECT
\* frame, no close) and changes nothing.
C8_IdempotentDisconnect ==
  [][(lastOp' = "disconnect" /\ disc)
       => (/\ sys' = <<>>
           /\ UNCHANGED <<connected, sockfd, socks, rx, cmdsWritten, connVars>>)]_vars
C8_Witness ==
  /\ driver = "main" /\ pc = "done" /\ exitCode = 0
  /\ lastOp = "disconnect" /\ sys = <<>>
  /\ str_DISCONNECT_LF_LF \in {f \o <<LF, LF>> : f \in cmdsWritten}

\* C9 (socket released exactly once): when the process has ended no socket is
\* open, and close() is never called on a descriptor that is not open.
C9_SocketReleasedOnce ==
  /\ (pc = "done") => \A fd \in Fds : ~socks[fd].open
  /\ \A k \in 1..Len(sys) : sys[k].op = "close" => sys[k].res = 0

\* C10 (no silent success): once all max_retries attempts of main() have failed,
\* the client is not connected, no frame other than CONNECT has been written,
\* main() does not go on to the messaging phase, and it returns 1.
C10_NoSilentSuccess ==
  AllAttemptsFailed =>
    /\ ~connected
    /\ \A c \in cmdsWritten : c = Command(connectFrame(app, broker_host))
    /\ pc \in {"check", "destruct", "done"}
    /\ exitCode \in {-1, 1}
    /\ (pc = "done") => exitCode = 1
C10_Witness ==
  /\ AllAttemptsFailed /\ pc = "done" /\ exitCode = 1
  /\ cmdsWritten = {Command(connectFrame(app, broker_host))}

\* Places where pat occurs in s.
Occurrences(s, pat) ==
  {k \in 0..(Len(s) - Len(pat)) : substr(s, k, Len(pat)) = pat}
\* The SEND frame the last call of sendMessage wrote.
SendWritten == lastOp = "sendMessage" /\ sys # <<>> /\ sys[1].res > 0

\* C11 (content-length of SEND): the SEND frame sendMessage writes for payload p
\* has exactly one content-length header, its value is the byte length of p,
\* and between the blank line and the NUL that ends the frame stand exactly the
\* bytes of p.
C11_ContentLength ==
  SendWritten =>
    LET f == sys[1].data
        sep == find(f, str_LF_LF, 0)
        head == substr(f, 0, sep + 1)
        name == <<LF>> \o CStr(str_content_length)
    IN  /\ sep # npos
        /\ Cardinality(Occurrences(head, name)) = 1
        /\ find(head, name \o to_string(Len(arg)) \o <<LF>>, 0) # npos
        /\ substr_from(f, sep + 2) = arg \o <<NUL>>

\* The MESSAGE frame a broker sends to a subscriber for a SEND frame with body p:
\* the headers of the SEND frame, content-length among them, the blank line, the
\* body and the terminator.
MessageFor(f, p) ==
  str_MESSAGE \o substr(f, Len(CStr(str_SEND_LF)) - 1, find(f, str_LF_LF, 0) - 2)
              \o p \o <<NUL>>

\* C12 (binary-safe round trip): the frame sendMessage builds for a payload,
\* forwarded as a MESSAGE frame and parsed by receiveMessage in one read, gives
\* back exactly the payload's bytes, a NUL among them included.
C12_RoundTrip ==
  SendWritten => ParseMessage(MessageFor(sys[1].data, arg)) = arg

IsPrefix(a, b) == Len(a) <= Len(b) /\ SubSeq(b, 1, Len(a)) = a

\* C13 (end-to-end ordering): when the broker forwards the payloads a producer
\* sent as MESSAGE frames in the order they were sent, the payloads the consumer
\* has received and counted are at every moment a prefix of the payloads sent.
C13_PrefixOfSent ==
  (app = "consumer" /\ AllMessages(peerFrames)) =>
    IsPrefix(delivered, Bodies(peerFrames))

\* The bytes the step's call of receiveMessage read from the connection.
ChunkRead == SubSeq(rx, 1, Len(rx) - Len(rx'))
\* The step is a call of receiveMessage on a connection in use.
ReceiveStep == lastOp' = "receiveMessage" /\ connected /\ Established

\* C14 (non-MESSAGE frames are errors): when the bytes a call of receiveMessage
\* reads are one complete frame that is not a MESSAGE frame, the call returns
\* something other than what it returns when there is no data, and what it
\* returns is not counted as a delivered message.
C14_ProtocolError ==
  [][(ReceiveStep /\ ChunkRead \in PeerFrames /\ ~IsMessage(ChunkRead))
       => (msg' # <<>> /\ delivered' = delivered)]_vars

\* The last public call was a write or a read whose system call failed, or a
\* read that met the end of the stream.
TransportFailed ==
  /\ lastOp \in {"sendMessage", "subscribe", "receiveMessage"}
  /\ sys # <<>>
  /\ sys[1].res <= 0

\* C15 (a transport error closes the connection): after a sendMessage or
\* subscribe whose write failed, or a receiveMessage whose read failed or met
\* the end of the stream, the client is no longer connected, so that every
\* later call is refused without I/O.
C15_ErrorCloses == TransportFailed => ~connected

\* C16 (peer close is reported): when the peer has closed the connection and a
\* call of receiveMessage reads the end of the stream, the call returns
\* something other than the empty string it returns when there is no message
\* yet, and what it returns is not counted as a delivered message.
C16_PeerCloseReported ==
  [][(ReceiveStep /\ peerClosed /\ rx = <<>> /\ sys' # <<>> /\ sys'[1].res = 0)
       => (msg' # <<>> /\ delivered' = delivered)]_vars

\* The client is Closed: the last call was a disconnect() that closed the
\* connection.
Closed == lastOp = "disconnect" /\ sys # <<>> /\ ~connected

\* C17 (connection state is monotonic): a client becomes connected only in a
\* call of connect(), and a client that disconnect() has closed does not become
\* connected again, whatever is called next.
C17_Monotonic ==
  [][/\ (~connected /\ connected') => lastOp' = "connect"
     /\ Closed => ~connected']_vars

\* C18 (delivery count): the consumer program's counter messages_received starts
\* at 0, changes only by +1 and only in a step where receiveMessage returns a
\* payload, equals the number of payloads returned so far, and never exceeds
\* expected_messages.
C18_DeliveryCount ==
  /\ messages_received = 0
  /\ [][/\ messages_received' \in {messages_received, messages_received + 1}
         /\ (messages_received' = messages_received + 1)
              => (lastOp' = "receiveMessage" /\ msg' # <<>>)
         /\ messages_received' = Len(delivered')
         /\ messages_received' <= expected_messages]_vars
\* The program has counted its tenth message and left, though the broker had
\* one more for it.
C18_Witness ==
  /\ messages_received = expected_messages
  /\ Len(peerFrames) > expected_messages
  /\ exitCode = 0

\* C19 (consumer shutdown after exactly 10): the consumer program ends with exit
\* code 0 only when it has counted expected_messages messages, and once the
\* broker has sent it expected_messages MESSAGE frames and it has read all their
\* bytes, it has counted expected_messages (and so goes on to disconnect and
\* exit).
C19_ShutdownAfterTen ==
  /\ exitCode = 0 => messages_received = expected_messages
  /\ (Len(peerFrames) = expected_messages /\ AllMessages(peerFrames) /\ rx = <<>>)
       => messages_received = expected_messages

\* C20 (the producer sends exactly 10 and exits 0): when the producer program
\* has ended with exit code 0, its send loop has run for the indices 1 to
\* message_count and each of its message_count calls of sendMessage has written
\* its SEND frame.
C20_TenSent ==
  (app = "producer" /\ driver = "main" /\ exitCode = 0) =>
    (i = message_count + 1 /\ sent = message_count)

\* Why a call of connect() with system-call trace t failed: the name was not
\* resolved, the transport failed (socket, TCP connect, write or read), or the
\* peer's answer was not accepted.
FailureCause(t) ==
  IF \E k \in 1..Len(t) : t[k].op = "gethostbyname" /\ t[k].res < 0
  THEN "ResolutionError"
  ELSE IF \/ \E k \in 1..Len(t) : t[k].op \in {"socket", "connect", "send"} /\ t[k].res < 0
          \/ \E k \in 1..Len(t) : t[k].op = "recv" /\ t[k].res <= 0
  THEN "TransportError"
  ELSE "HandshakeError"
\* The last step was a call of connect() that returned without a connection.
ConnectFailed == lastOp = "connect" /\ ~ret /\ ~hung

\* C21 (failure cause is reported): what a failed connect() returns to its
\* caller identifies the cause of the failure: two failed calls that failed for
\* different causes return different results.
C21_CauseReported ==
  [][(ConnectFailed /\ ConnectFailed' /\ FailureCause(sys) # FailureCause(sys'))
       => ret # ret']_vars

\* The client is Connected: the flag is set and the socket it holds is the open
\* one the handshake was made on.
Connected == connected /\ Established

\* C22 (best-effort disconnect): disconnect() on a Connected client makes one
\* write of the DISCONNECT frame and then one close of the socket, in this order
\* and whatever the write returned, and leaves the client not connected with
\* the socket closed.
C22_BestEffortDisconnect ==
  [][(lastOp' = "disconnect" /\ Connected) =>
       /\ Len(sys') = 2
       /\ sys'[1].op = "send" /\ sys'[1].fd = sockfd
       /\ Command(sys'[1].data) = Command(disconnectFrame(app))
       /\ sys'[2].op = "close" /\ sys'[2].fd = sockfd
       /\ ~connected'
       /\ ~socks'[sockfd].open]_vars
\* A disconnect() whose write of DISCONNECT failed has closed the socket.
C22_Witness ==
  /\ lastOp = "disconnect"
  /\ Len(sys) = 2 /\ sys[1].res < 0 /\ sys[2].res = 0
  /\ ~connected

\* C23 (connect is bounded): no call of connect() is left waiting for ever for
\* the peer's answer to the CONNECT frame; a peer that accepts the connection
\* and sends nothing makes the attempt fail, not block.
C23_ConnectReturns == ~hung

\* C24 (receive is bounded): a call of receiveMessage the consumer program makes
\* always returns, also when the peer has sent no byte and has not closed the
\* connection: whenever the program is at the call, the call can complete.
C24_ReceiveReturns ==
  (driver = "main" /\ pc = "recv") => ENABLED MainReceive

\* C25 (fire-and-forget): a call of sendMessage or subscribe on a connected
\* client makes exactly one system call, the write of its frame, reads nothing
\* from the connection, and returns true exactly when that write was accepted.
C25_FireAndForget ==
  [][(lastOp' \in {"sendMessage", "subscribe"} /\ connected) =>
       /\ Len(sys') = 1
       /\ sys'[1].op = "send" /\ sys'[1].fd = sockfd
       /\ sys'[1].data = (IF lastOp' = "sendMessage"
                          THEN sendFrame(queue_destination, arg')
                          ELSE subscribeFrame(queue_destination, sub_1))
       /\ ret' = (sys'[1].res > 0)
       /\ rx' = rx]_vars
\* sendMessage has returned true while bytes of the peer wait unread.
C25_Witness == lastOp = "sendMessage" /\ ret /\ rx # <<>>

\* C26 (no automatic reconnection): once the retry loop of main() has ended with
\* a connection, main() never calls connect() again, whatever the later calls
\* of sendMessage, subscribe and receiveMessage return.
C26_NoReconnect ==
  [][(driver = "main" /\ connection_successful) => lastOp' # "connect"]_vars
\* After the loop has connected, a write or a read of main() has failed.
C26_Witness == driver = "main" /\ connection_successful /\ TransportFailed

C29_FrameRoundTrip ==
  SendWritten => ParseMessage(sys[1].data) = arg

\* C30 (every complete MESSAGE frame is delivered and counted): when a call of
\* receiveMessage in the consumer program reads exactly one complete MESSAGE
\* frame, an empty body included, it returns the frame's body and the program's
\* count of received messages grows by one.
C30_EveryMessageCounted ==
  [][(ReceiveStep /\ ChunkRead \in {FrameMsgX, FrameMsgEmpty})
       => /\ msg' = Body(ChunkRead)
          /\ messages_received' = messages_received + 1]_vars

\* C31 (retries are sequential and stop at the first success): main() starts an
\* attempt only when no attempt has succeeded, the one before has returned and
\* has left the client not connected; and when the retry loop is left, the
\* client is Connected exactly when an attempt has succeeded.
C31_SequentialRetries ==
  [][driver = "main" =>
       /\ lastOp' = "connect" => (~connection_successful /\ ~connected /\ ~hung)
       /\ (pc # "check" /\ pc' = "check") =>
            /\ connected' <=> connection_successful'
            /\ connected' => Established']_vars
\* The loop has been left with a connection made after failed attempts.
C31_Witness ==
  driver = "main" /\ pc = "check" /\ connection_successful /\ attempts > 1 /\ Connected

\* The steps of a call of connect() with system-call trace t, the closing of the
\* socket on failure left aside.
StepsOf(t) == SelectSeq([k \in 1..Len(t) |-> t[k].op], LAMBDA op : op # "close")
\* The k-th system call of trace t let the call go on.
StepPassed(t, k) ==
  CASE t[k].op = "socket" -> t[k].res > 0
    [] t[k].op \in {"gethostbyname", "connect"} -> t[k].res = 0
    [] t[k].op = "send" -> t[k].res > 0
    [] OTHER -> FALSE
\* The steps of the last call of connect() are the first steps of order, each
\* made only after the one before it has succeeded.
StepsFollow(order) ==
  LET steps == StepsOf(sys)
  IN  /\ steps # <<>>
      /\ IsPrefix(steps, order)
      /\ \A k \in 1..(Len(steps) - 1) : StepPassed(sys, k)
      /\ (Len(steps) < Len(order) /\ ~hung) => ~StepPassed(sys, Len(steps))

\* C32 (step order inside one connect attempt), as claimed: every attempt first
\* resolves the name, then opens the socket, then makes the TCP connection,
\* then writes the CONNECT frame, then reads the response; each step is made
\* only when the one before succeeded, so that resolution is the first step of
\* every attempt.
C32_StepOrder ==
  lastOp = "connect" =>
    StepsFollow(<<"gethostbyname", "socket", "connect", "send", "recv">>)
\* C32, amended: every attempt first creates the socket, then resolves the name,
\* then makes the TCP connection, then writes the CONNECT frame, then reads the
\* response; each step is made only when the one before succeeded, so that
\* resolution is made anew in every attempt whose socket was created.
C32_StepOrderSocketFirst ==
  lastOp = "connect" =>
    StepsFollow(<<"socket", "gethostbyname", "connect", "send", "recv">>)
\* The second attempt of main() has gone through all five steps and connected,
\* after a first one that failed.
C32_Witness ==
  /\ driver = "main" /\ lastOp = "connect" /\ attempts = 2 /\ ret
  /\ Len(StepsOf(sys)) = 5

\* The header lines of a frame: the lines between its command line and its blank
\* line.
RECURSIVE SplitLines(_)
SplitLines(s) ==
  IF s = <<>> THEN <<>>
  ELSE LET k == find(s, <<LF>>, 0)
       IN  IF k = npos THEN <<s>>
           ELSE <<SubSeq(s, 1, k)>> \o SplitLines(substr_from(s, k + 1))
HeaderLines(f) ==
  LET c == find(f, <<LF>>, 0)
      b == find(f, str_LF_LF, 0)
  IN  IF c = npos \/ b = npos \/ b <= c THEN <<>>
      ELSE SplitLines(SubSeq(f, c + 2, b))
HeaderName(line) ==
  LET k == find(line, <<":">>, 0) IN IF k = npos THEN line ELSE SubSeq(line, 1, k)
HeaderNames(f) == [k \in 1..Len(HeaderLines(f)) |-> HeaderName(HeaderLines(f)[k])]
HasHeader(f, name) == \E k \in 1..Len(HeaderLines(f)) : HeaderNames(f)[k] = name
HasHeaderLine(f, line) == \E k \in 1..Len(HeaderLines(f)) : HeaderLines(f)[k] = line
\* What follows the blank line of a frame, its terminator left aside.
BodyPart(f) ==
  LET rest == substr_from(f, find(f, str_LF_LF, 0) + 2)
  IN  IF rest # <<>> /\ Last(rest) = NUL THEN SubSeq(rest, 1, Len(rest) - 1) ELSE rest
\* Every frame the last public call passed to send().
FramesSent == {sys[k].data : k \in {j \in 1..Len(sys) : sys[j].op = "send"}}

cmd_CONNECT == <<"C", "O", "N", "N", "E", "C", "T">>
cmd_SEND == <<"S", "E", "N", "D">>
cmd_SUBSCRIBE == <<"S", "U", "B", "S", "C", "R", "I", "B", "E">>
cmd_DISCONNECT == <<"D", "I", "S", "C", "O", "N", "N", "E", "C", "T">>
hdr_accept_version == <<"a", "c", "c", "e", "p", "t", "-", "v", "e", "r", "s", "i", "o", "n">>
hdr_host == <<"h", "o", "s", "t">>
hdr_destination == <<"d", "e", "s", "t", "i", "n", "a", "t", "i", "o", "n">>
hdr_content_type == <<"c", "o", "n", "t", "e", "n", "t", "-", "t", "y", "p", "e">>
hdr_content_length == <<"c", "o", "n", "t", "e", "n", "t", "-", "l", "e", "n", "g", "t", "h">>
hdr_id == <<"i", "d">>
hdr_ack == <<"a", "c", "k">>
line_ack_auto == <<"a", "c", "k", ":", "a", "u", "t", "o">>

\* C33 (required headers per command): every CONNECT frame written has the
\* headers accept-version and host, every SEND frame destination, content-type
\* and content-length, every SUBSCRIBE frame destination, id and ack with the
\* value auto; a DISCONNECT frame has no body; and no frame written has two
\* headers of the same name.
C33_RequiredHeaders ==
  \A f \in FramesSent :
    /\ Command(f) \in {cmd_CONNECT, cmd_SEND, cmd_SUBSCRIBE, cmd_DISCONNECT}
    /\ \A j, k \in 1..Len(HeaderLines(f)) :
         HeaderNames(f)[j] = HeaderNames(f)[k] => j = k
    /\ Command(f) = cmd_CONNECT =>
         HasHeader(f, hdr_accept_version) /\ HasHeader(f, hdr_host)
    /\ Command(f) = cmd_SEND =>
         /\ HasHeader(f, hdr_destination)
         /\ HasHeader(f, hdr_content_type)
         /\ HasHeader(f, hdr_content_length)
    /\ Command(f) = cmd_SUBSCRIBE =>
         /\ HasHeader(f, hdr_destination)
         /\ HasHeader(f, hdr_id)
         /\ HasHeaderLine(f, line_ack_auto)
    /\ Command(f) = cmd_DISCONNECT => BodyPart(f) = <<>>
\* After a CONNECT frame, a SEND frame whose payload holds a blank line has been
\* written.
C33_Witness ==
  /\ lastOp = "sendMessage" /\ ret /\ arg = <<"a", LF, LF, "b">>
  /\ cmd_CONNECT \in cmdsWritten

\* The step's public call had a frame accepted by send().
WriteAccepted ==
  /\ lastOp' \notin {"main", "peer"}
  /\ \E k \in 1..Len(sys') : sys'[k].op = "send" /\ sys'[k].res > 0
\* sys is still the trace of the last call of connect().
AfterConnect == sys # <<>> /\ sys[1].op = "socket"

\* The first frame accepted on a socket is CONNECT: a frame of another command
\* is accepted only on the open socket of a finished handshake.
C34_ConnectFirst ==
  (WriteAccepted /\ lastOp' # "connect") => Established
\* The first SEND or SUBSCRIBE frame after connect() follows a CONNECTED frame
\* read by that connect().
C34_AfterConnected ==
  (WriteAccepted /\ lastOp' \in {"sendMessage", "subscribe"} /\ AfterConnect)
    => AnswerIsConnected
\* The consumer program writes one SUBSCRIBE frame, and that before it first
\* calls receiveMessage.
C34_OneSubscribe ==
  (driver = "main" /\ app = "consumer") =>
    /\ lastOp' = "subscribe" => cmd_SUBSCRIBE \notin cmdsWritten
    /\ lastOp' = "receiveMessage" => cmd_SUBSCRIBE \in cmdsWritten
\* A DISCONNECT frame is accepted only on the socket of a finished handshake,
\* which the same call closes, so that nothing is written or read on it later.
C34_DisconnectLast ==
  (WriteAccepted /\ lastOp' = "disconnect") =>
    (Established /\ ~socks'[sockfd].open)

\* C34 (wire protocol order on each connection): the first frame written on a
\* socket is CONNECT; SEND and SUBSCRIBE frames are written only after a
\* CONNECTED frame has been read on the socket; the consumer program writes
\* exactly one SUBSCRIBE frame before its first receive; DISCONNECT is written
\* at most once, on a socket whose handshake succeeded, and is the last use of
\* the socket.
C34_WireOrder ==
  [][/\ C34_ConnectFirst
     /\ C34_AfterConnected
     /\ C34_OneSubscribe
     /\ C34_DisconnectLast]_vars

\* C35 (connected implies a live socket): whenever the connected flag is true,
\* sockfd is a descriptor that is open and on which the handshake was made.
C35_ConnectedLive == connected => Established

\* C36 (receive-buffer bounds): after a read that returned a positive byte
\* count, the index at which the terminating zero was stored lies inside the
\* local buffer: below 1024 in connect() and below 4096 in receiveMessage().
C36_ConnectZeroInside ==
  (lastOp = "connect" /\ zero_index >= 0) => zero_index < connect_buffer_size
C36_ReceiveZeroInside ==
  (lastOp = "receiveMessage" /\ zero_index >= 0) => zero_index < receive_buffer_size
C36_ZeroInsideBuffer == C36_ConnectZeroInside /\ C36_ReceiveZeroInside

\* C37 (consumer termination): once the consumer program has subscribed and
\* entered its receive loop, it eventually leaves the loop, releases its socket
\* and exits, whatever the broker does.
SocketsReleased == \A fd \in Fds : ~socks[fd].open
C37_ConsumerTerminates == (pc = "recv") ~> (pc = "done" /\ SocketsReleased)
====
